---- MODULE Spec2Model ----
(***************************************************************************)
(* A model of optimize_schedule (src/main.py): the expansion of shift      *)
(* templates into dated shift instances, the hard constraints and the      *)
(* objective handed to the CP-SAT solver, the solver's outcome, and the    *)
(* projection of the solved assignment into a ScheduleResult.              *)
(*                                                                         *)
(* Representation.                                                         *)
(*   - A time string "HH:MM" is the pair <<HH, MM>>; parse_time turns it   *)
(*     into minutes since midnight.                                        *)
(*   - A datetime is [day |-> d, tod |-> minutes]; day 0 is Monday         *)
(*     2024-12-23, so day 9 is Wednesday 2025-01-01.                       *)
(*   - A float number of hours (ShiftType.duration) is kept in hundredths  *)
(*     of an hour; prioritizeFairness is kept in thousandths.              *)
(*   - Employees and shift templates are named by their position in the    *)
(*     configuration's lists (their ids are taken to be distinct).         *)
(***************************************************************************)
EXTENDS Integers, Sequences, FiniteSets, TLC

VARIABLES config, pc, current_date, shifts, status, assignment, result

vars == <<config, pc, current_date, shifts, status, assignment, result>>

(***************************************************************************)
(* Bounds of the model.                                                    *)
(***************************************************************************)
\* the longest scheduling period is MaxSpan + 1 calendar dates
MaxSpan == 1
\* the most weekend dates of a period that skips the weekdays
MaxWeekendDays == 3

(***************************************************************************)
(* Generic helpers.                                                        *)
(***************************************************************************)
Range(s) == {s[i] : i \in 1..Len(s)}

RECURSIVE SumOver(_, _)
\* sum of f[x] over the finite set S (f a function on S)
SumOver(S, f) ==
    IF S = {} THEN 0
    ELSE LET x == CHOOSE y \in S : TRUE
         IN  f[x] + SumOver(S \ {x}, f)

Abs(x) == IF x < 0 THEN -x ELSE x

(***************************************************************************)
(* Time and calendar.                                                      *)
(***************************************************************************)
parse_time(t) == t[1] * 60 + t[2]

DateTime(d, m) == [day |-> d, tod |-> m]

\* datetime.date(): the calendar date of a datetime
date(dt) == dt.day

\* datetime <= datetime
DtLeq(a, b) == a.day < b.day \/ (a.day = b.day /\ a.tod <= b.tod)

\* datetime + timedelta(days = n)
PlusDays(dt, n) == [dt EXCEPT !.day = dt.day + n]

\* datetime.weekday(): Monday = 0 ... Sunday = 6
weekday(dt) == dt.day % 7

\* the calendar year and the 0-based day of the year of a datetime
YearOf(dt) == IF dt.day < 9 THEN 2024 ELSE 2025
YDay(dt) == IF dt.day < 9 THEN 357 + dt.day ELSE dt.day - 9

\* strftime('%Y-%W'): the year and the week of the year, weeks starting on Monday
strftime_YW(dt) == <<YearOf(dt), (YDay(dt) + 7 - weekday(dt)) \div 7>>

\* week_key taken of the shift's own date and by the day of the year
week_key_ByDate(shift) == <<YearOf(shift.date), YDay(shift.date)>>

week_key(shift) == strftime_YW(PlusDays(shift.date, 0 - weekday(shift.date)))

NightStart == 22 * 60
NightEnd == 6 * 60

\* is_night_shift with "and" for "or"
is_night_shift_Both(start_time, end_time) ==
    parse_time(start_time) >= NightStart /\ parse_time(end_time) <= NightEnd

is_night_shift(start_time, end_time) ==
    parse_time(start_time) >= NightStart \/ parse_time(end_time) <= NightEnd

is_weekend(dt) == weekday(dt) >= 5

(***************************************************************************)
(* Configurations: the values a SchedulingConfig is drawn from.            *)
(***************************************************************************)
T0000 == <<0, 0>>
T0600 == <<6, 0>>
T0800 == <<8, 0>>
T0900 == <<9, 0>>
T1200 == <<12, 0>>
T1300 == <<13, 0>>
T1400 == <<14, 0>>
T1700 == <<17, 0>>
T1800 == <<18, 0>>
T2200 == <<22, 0>>

AvailabilitySlot(d, s, e) == [dayOfWeek |-> d, startTime |-> s, endTime |-> e]

Employee(r, h, av) == [role |-> r, maxHoursPerWeek |-> h, availability |-> av]

RequiredRole(r, n) == [role |-> r, count |-> n]

\* duration is in hundredths of an hour
ShiftType(s, e, req, dur, rep) ==
    [startTime |-> s, endTime |-> e, requiredRoles |-> req,
     duration |-> dur, isRepeating |-> rep]

Constraints(maxH, perDay, maxNight, minRest, fair) ==
    [maxHoursPerEmployee |-> maxH, maxShiftsPerDay |-> perDay,
     maxNightShiftsPerWeek |-> maxNight,
     minHoursBetweenShifts |-> minRest, prioritizeFairness |-> fair]

Preferences(minNight, spread) ==
    [minimizeNightShifts |-> minNight, spreadWeekendShiftsFairly |-> spread]

SchedulingConfig(emps, types, startDate, endDate, hol, off, cons, prefs) ==
    [employees |-> emps, shiftTypes |-> types,
     startDate |-> startDate, endDate |-> endDate,
     holidays |-> hol, daysOff |-> off,
     constraints |-> cons, preferences |-> prefs]

\* Monday to Friday, 09:00-17:00 (src/test_availability.py)
WeekdayAvailability ==
    [d \in 1..5 |-> AvailabilitySlot(d - 1, T0900, T1700)]

\* thresholds that restrict little: 40 h a week, 3 shifts a day, 2 nights a
\* week, 8 h of rest
DefaultConstraints(fair) == Constraints(40, 3, 2, 8, fair)

NoPreferences == Preferences(FALSE, FALSE)

\* the first days of the periods: Monday, Saturday, Sunday, Tuesday 2024-12-31
StartDays == {0, 5, 6, 8}

Spans == 0..MaxSpan

(* Periods: the time of day of startDate and endDate, holidays and days    *)
(* off, the recurrence flags and maxShiftsPerDay vary; two employees, no   *)
(* role requirement (src/test_problematic_config.py).  startDate is never  *)
(* after endDate.                                                          *)
PeriodConfigs ==
    { c \in
        { SchedulingConfig(
              <<Employee("Manager", 40, <<>>), Employee("Cashier", 30, <<>>)>>,
              <<ShiftType(T0900, T1700, <<>>, 800, r[1]),
                ShiftType(T1200, T1300, <<>>, 100, r[2])>>,
              DateTime(d, st), DateTime(d + n, et),
              IF h = 1 THEN <<DateTime(d, 720)>> ELSE <<>>,
              IF h = 2 THEN <<DateTime(d + n, 0)>> ELSE <<>>,
              Constraints(40, perDay, 2, 8, 0), NoPreferences)
          : d \in StartDays, n \in Spans, st \in {0, 1260}, et \in {0, 1259, 1439},
            h \in 0..2, r \in [1..2 -> BOOLEAN], perDay \in {1, 3} }
      : DtLeq(c.startDate, c.endDate) }

RoleLists ==
    {<<>>} \cup [1..1 -> {"Manager", "Cashier"}] \cup [1..2 -> {"Manager", "Cashier"}]

RoleRequirements ==
    { <<>>, <<RequiredRole("Manager", 1)>>, <<RequiredRole("Cashier", 1)>>,
      <<RequiredRole("Manager", 2)>>,
      <<RequiredRole("Manager", 1), RequiredRole("Cashier", 1)>> }

(* Roles: the employees' roles, the templates' role requirements and the   *)
(* objective terms vary (src/test_mixed_requirements.py).                  *)
RoleConfigs ==
    { SchedulingConfig(
          [i \in 1..Len(rl) |-> Employee(rl[i], 40, <<>>)],
          IF two
          THEN <<ShiftType(T0900, T1700, q, 800, TRUE),
                 ShiftType(T2200, T0600, <<>>, 800, TRUE)>>
          ELSE <<ShiftType(T0900, T1700, q, 800, TRUE)>>,
          DateTime(0, 0), DateTime(n, 1439), <<>>, <<>>,
          DefaultConstraints(f), Preferences(mn, FALSE))
      : rl \in RoleLists, q \in RoleRequirements, two \in BOOLEAN, n \in Spans,
        f \in {0, 500, 700}, mn \in BOOLEAN }

Availabilities ==
    { <<>>, WeekdayAvailability,
      <<AvailabilitySlot(0, T0900, T1200)>>,
      <<AvailabilitySlot(0, T0800, T1800)>>,
      <<AvailabilitySlot(5, T0900, T1700), AvailabilitySlot(6, T0800, T1300)>> }

(* Availability: the employees' windows and weekly hours vary              *)
(* (src/test_availability.py, src/test_availability_feasible.py).          *)
AvailabilityConfigs ==
    { SchedulingConfig(
          IF av2 = <<>>
          THEN <<Employee("Manager", 40, av1)>>
          ELSE <<Employee("Manager", 40, av1), Employee("Manager", h, av2)>>,
          <<ShiftType(T0900, T1700, q, 800, TRUE)>>,
          DateTime(d, 0), DateTime(d + n, 0), <<>>, <<>>,
          DefaultConstraints(700), NoPreferences)
      : av1 \in Availabilities, av2 \in Availabilities, h \in {0, 8, 40},
        q \in {<<>>, <<RequiredRole("Manager", 1)>>},
        d \in {0, 5}, n \in Spans }

(* Caps: the weekly hours cap, the weekly night-shift cap, the minimum     *)
(* rest and the templates' hours vary.                                     *)
CapConfigs ==
    { SchedulingConfig(
          <<Employee("Manager", 40, <<>>), Employee("Manager", 40, <<>>)>>,
          types, DateTime(d, 0), DateTime(d + n, 0), <<>>, <<>>,
          Constraints(maxH, 3, maxNight, minRest, 0), NoPreferences)
      : types \in { <<ShiftType(T2200, T0600, <<>>, 800, TRUE)>>,
                    <<ShiftType(T0600, T1400, <<>>, 825, TRUE),
                      ShiftType(T1400, T2200, <<RequiredRole("Manager", 1)>>, 800, TRUE)>>,
                    <<ShiftType(T0000, T0600, <<RequiredRole("Manager", 1)>>, 600, TRUE),
                      ShiftType(T0900, T1700, <<>>, 800, TRUE)>> },
        d \in {0, 5, 6}, n \in Spans,
        maxH \in {8, 16, 40}, maxNight \in {0, 1, 7}, minRest \in {4, 12, 17} }

(* Fairness: three employees of one role and one template, by day or by    *)
(* night, so that the fairness cap is lower than the number of dates;      *)
(* prioritizeFairness varies around 0.5.                                   *)
FairnessConfigs ==
    { SchedulingConfig(
          [i \in 1..3 |-> Employee("Manager", 40, <<>>)],
          <<ShiftType(t[1], t[2], q, 800, TRUE)>>,
          DateTime(0, 0), DateTime(n, 0), <<>>, <<>>,
          DefaultConstraints(f), Preferences(mn, FALSE))
      : t \in {<<T0900, T1700>>, <<T2200, T0600>>},
        q \in {<<>>, <<RequiredRole("Manager", 1)>>}, n \in Spans,
        f \in {5, 500, 501, 900}, mn \in BOOLEAN }

\* the k-th weekend date from Saturday 2024-12-28 on
WeekendDay(k) == 5 + 7 * ((k - 1) \div 2) + ((k - 1) % 2)

\* the Mondays to Fridays of the first w weeks after that Saturday
WeekdaysOff(w) ==
    [i \in 1..(5 * w) |-> DateTime(7 * (((i - 1) \div 5) + 1) + ((i - 1) % 5), 0)]

(* Weekends: the period starts on a Saturday and ends on a weekend date,   *)
(* the weekdays in between are days off; spreadWeekendShiftsFairly varies. *)
WeekendConfigs ==
    { SchedulingConfig(
          [i \in 1..ne |-> Employee("Manager", 40, <<>>)],
          <<ShiftType(T0900, T1700, q, 800, TRUE)>>,
          DateTime(5, 0), DateTime(WeekendDay(k), 0),
          <<>>, WeekdaysOff((k - 1) \div 2),
          DefaultConstraints(0), Preferences(FALSE, sp))
      : ne \in 1..2, q \in {<<>>, <<RequiredRole("Manager", 1)>>},
        k \in 1..MaxWeekendDays, sp \in BOOLEAN }

Configs ==
    PeriodConfigs \cup RoleConfigs \cup AvailabilityConfigs \cup CapConfigs
        \cup FairnessConfigs \cup WeekendConfigs

(***************************************************************************)
(* State.                                                                  *)
(*   pc            where optimize_schedule is: "expand" (the loop over the *)
(*                 dates), "build" (the constraints and the objective),    *)
(*                 "solve", "project", "done" (a ScheduleResult was        *)
(*                 returned) or "error" (an exception left the function)   *)
(*   shifts        the shift instances generated so far                    *)
(*   status        the solver's status, "none" before the solve            *)
(*   assignment    the pairs <<employee, shift id>> whose variable is 1    *)
(***************************************************************************)
NoResult == [shifts |-> <<>>, employeeUtilization |-> <<>>,
             shiftCoveragePercentage |-> [num |-> 0, den |-> 1], violations |-> <<>>]

Init ==
    /\ config \in Configs
    /\ pc = "expand"
    /\ current_date = config.startDate
    /\ shifts = <<>>
    /\ status = "none"
    /\ assignment = {}
    /\ result = NoResult

(***************************************************************************)
(* The Shift Expander: one iteration of the loop over the dates.           *)
(***************************************************************************)
\* IsExcluded with the days off forgotten
IsExcluded_HolidaysOnly(dt) ==
    \E i \in 1..Len(config.holidays) : date(dt) = date(config.holidays[i])

\* the condition under which a date is skipped
IsExcluded(dt) ==
    \/ \E i \in 1..Len(config.holidays) : date(dt) = date(config.holidays[i])
    \/ \E i \in 1..Len(config.daysOff) : date(dt) = date(config.daysOff[i])

\* the loop's condition
InPeriod(dt) == DtLeq(dt, config.endDate)

\* the instance of template t on the date dt, given the id counter
ShiftInstance(t, dt, counter) ==
    LET shift_type == config.shiftTypes[t]
    IN  [id |-> counter,
         shiftTypeId |-> t,
         date |-> dt,
         startTime |-> shift_type.startTime,
         endTime |-> shift_type.endTime,
         duration |-> (shift_type.duration * 60) \div 100,
         requiredRoles |-> shift_type.requiredRoles,
         isNightShift |-> is_night_shift(shift_type.startTime, shift_type.endTime),
         isWeekend |-> is_weekend(dt)]

RECURSIVE ExpandTemplates(_, _, _)
\* the inner loop over the templates, from template t on
ExpandTemplates(t, dt, acc) ==
    IF t > Len(config.shiftTypes) THEN acc
    ELSE IF config.shiftTypes[t].isRepeating
         THEN ExpandTemplates(t + 1, dt, Append(acc, ShiftInstance(t, dt, Len(acc))))
         ELSE ExpandTemplates(t + 1, dt, acc)

SkipDate ==
    /\ pc = "expand"
    /\ InPeriod(current_date)
    /\ IsExcluded(current_date)
    /\ current_date' = PlusDays(current_date, 1)
    /\ UNCHANGED <<config, pc, shifts, status, assignment, result>>

ExpandDate ==
    /\ pc = "expand"
    /\ InPeriod(current_date)
    /\ ~IsExcluded(current_date)
    /\ shifts' = ExpandTemplates(1, current_date, shifts)
    /\ current_date' = PlusDays(current_date, 1)
    /\ UNCHANGED <<config, pc, status, assignment, result>>

ExpandDone ==
    /\ pc = "expand"
    /\ ~InPeriod(current_date)
    /\ pc' = "build"
    /\ UNCHANGED <<config, current_date, shifts, status, assignment, result>>

(***************************************************************************)
(* The Assignment Model and the Constraint Compiler.  An assignment is the *)
(* set of the pairs <<employee, shift id>> whose boolean variable is 1.    *)
(***************************************************************************)
Employees == 1..Len(config.employees)

ShiftIds == {shifts[i].id : i \in 1..Len(shifts)}

ShiftById(id) == shifts[id + 1]

\* employee_shift[e][s]: one boolean variable per employee and shift instance
employee_shift == Employees \X ShiftIds

\* the value of employee_shift[e][s] in the assignment a
Val(a, e, s) == IF <<e, s>> \in a THEN 1 ELSE 0

\* sum(employee_shift[e][s] for e in es)
CountOnShift(a, es, s) == Cardinality({e \in es : <<e, s>> \in a})

\* sum(employee_shift[e][s] for s in ss)
CountOfEmployee(a, e, ss) == Cardinality({s \in ss : <<e, s>> \in a})

\* is_available with the day of the week not compared
is_available_AnyDay(e, shift) ==
    \E i \in 1..Len(config.employees[e].availability) :
        LET availability_slot == config.employees[e].availability[i]
        IN  /\ parse_time(shift.startTime) >= parse_time(availability_slot.startTime)
            /\ parse_time(shift.endTime) <= parse_time(availability_slot.endTime)

\* 0. whether some availability slot of employee e holds the shift
is_available(e, shift) ==
    \E i \in 1..Len(config.employees[e].availability) :
        LET availability_slot == config.employees[e].availability[i]
        IN  /\ weekday(shift.date) = availability_slot.dayOfWeek
            /\ parse_time(shift.startTime) >= parse_time(availability_slot.startTime)
            /\ parse_time(shift.endTime) <= parse_time(availability_slot.endTime)

AvailabilityConstraint(a) ==
    \A e \in Employees :
        config.employees[e].availability # <<>> =>
            \A s \in ShiftIds :
                ~is_available(e, ShiftById(s)) => Val(a, e, s) = 0

\* RoleConstraint with nothing required of a shift without required roles
RoleConstraint_NoRuleForAnyRole(a) ==
    \A s \in ShiftIds :
        LET shift == ShiftById(s)
        IN  \A i \in 1..Len(shift.requiredRoles) :
                LET required_role == shift.requiredRoles[i]
                    role_employees ==
                        {e \in Employees : config.employees[e].role = required_role.role}
                IN  role_employees # {} =>
                        CountOnShift(a, role_employees, s) = required_role.count

\* 1. the required number of employees per role
RoleConstraint(a) ==
    \A s \in ShiftIds :
        LET shift == ShiftById(s)
        IN  IF shift.requiredRoles # <<>>
            THEN \A i \in 1..Len(shift.requiredRoles) :
                    LET required_role == shift.requiredRoles[i]
                        role_employees ==
                            {e \in Employees : config.employees[e].role = required_role.role}
                    IN  role_employees # {} =>
                            CountOnShift(a, role_employees, s) = required_role.count
            ELSE Employees # {} => CountOnShift(a, Employees, s) >= 1

\* 2. one shift per employee and day
same_day_shifts(s) ==
    {o \in ShiftIds : ShiftById(o).date = ShiftById(s).date /\ o # s}

\* OneShiftPerDayConstraint allowing maxShiftsPerDay shifts on a date
OneShiftPerDayConstraint_UpToMax(a) ==
    \A e \in Employees : \A s \in ShiftIds :
        CountOfEmployee(a, e, same_day_shifts(s) \cup {s}) <= config.constraints.maxShiftsPerDay

OneShiftPerDayConstraint(a) ==
    \A e \in Employees : \A s \in ShiftIds : \A o \in same_day_shifts(s) :
        Val(a, e, s) + Val(a, e, o) <= 1

\* the weekly grouping: the week keys, and the shifts of a week
WeekKeys == {week_key(ShiftById(s)) : s \in ShiftIds}

shifts_by_week(k) == {s \in ShiftIds : week_key(ShiftById(s)) = k}

MinutesOf(a, e, ss) ==
    SumOver(ss, [s \in ss |-> Val(a, e, s) * ShiftById(s).duration])

\* 3. the weekly hours cap
max_minutes_per_week == config.constraints.maxHoursPerEmployee * 60

WeeklyHoursConstraint(a) ==
    \A e \in Employees : \A k \in WeekKeys :
        MinutesOf(a, e, shifts_by_week(k)) <= max_minutes_per_week

\* 4. the minimum rest between shifts on consecutive days
DaysBetween(d1, d2) == d2.day - d1.day

\* RestTooShort with the rest in minutes compared with the minimum in hours
RestTooShort_Unconverted(shift1, shift2) ==
    (24 * 60 - parse_time(shift1.endTime) + parse_time(shift2.startTime))
        < config.constraints.minHoursBetweenShifts

RestTooShort(shift1, shift2) ==
    (24 * 60 - parse_time(shift1.endTime) + parse_time(shift2.startTime))
        < config.constraints.minHoursBetweenShifts * 60

MinRestConstraint(a) ==
    \A e \in Employees : \A s1 \in ShiftIds : \A s2 \in ShiftIds :
        (/\ s1 # s2
         /\ DaysBetween(ShiftById(s1).date, ShiftById(s2).date) = 1
         /\ RestTooShort(ShiftById(s1), ShiftById(s2)))
            => Val(a, e, s1) + Val(a, e, s2) <= 1

\* 5. the weekly night-shift cap
night_shifts(k) == {s \in shifts_by_week(k) : ShiftById(s).isNightShift}

NightShiftConstraint(a) ==
    \A e \in Employees : \A k \in WeekKeys :
        CountOfEmployee(a, e, night_shifts(k)) <= config.constraints.maxNightShiftsPerWeek

\* 6. the fairness cap
\* FairnessCapApplies with the threshold 0.5 included
FairnessCapApplies_FromHalf == config.constraints.prioritizeFairness >= 500

FairnessCapApplies == config.constraints.prioritizeFairness > 500

Max(x, y) == IF x >= y THEN x ELSE y

max_shifts_per_employee ==
    Max(1, (Len(shifts) \div Len(config.employees)) + 1)

FairnessConstraint(a) ==
    FairnessCapApplies =>
        \A e \in Employees :
            CountOfEmployee(a, e, ShiftIds) <= max_shifts_per_employee

\* the weekend cap
weekend_shifts == {s \in ShiftIds : ShiftById(s).isWeekend}

\* WeekendConstraint with a cap of three
WeekendConstraint_UpToThree(a) ==
    config.preferences.spreadWeekendShiftsFairly =>
        \A e \in Employees : CountOfEmployee(a, e, weekend_shifts) <= 3

WeekendConstraint(a) ==
    config.preferences.spreadWeekendShiftsFairly =>
        \A e \in Employees : CountOfEmployee(a, e, weekend_shifts) <= 2

(***************************************************************************)
(* The Objective Compiler.                                                 *)
(***************************************************************************)
FairnessObjectiveApplies == config.constraints.prioritizeFairness > 0

total_shifts_needed == Len(shifts)

ideal_shifts_per_employee ==
    IF config.employees # <<>>
    THEN total_shifts_needed \div Len(config.employees)
    ELSE 0

\* what the two inequalities on deviation_e bound it by from below
DeviationOf(a, e) ==
    Abs(CountOfEmployee(a, e, ShiftIds) - ideal_shifts_per_employee)

\* deviation_e is an integer variable of 0..total_shifts_needed
DeviationConstraint(a) ==
    FairnessObjectiveApplies =>
        \A e \in Employees : DeviationOf(a, e) <= total_shifts_needed

\* int(prioritizeFairness * 100)
\* FairnessWeight without the factor of 100: int(prioritizeFairness)
FairnessWeight_Unscaled == config.constraints.prioritizeFairness \div 1000

FairnessWeight == (config.constraints.prioritizeFairness * 100) \div 1000

fairness_penalty(a) == SumOver(Employees, [e \in Employees |-> DeviationOf(a, e)])

night_shift_penalty(a) ==
    Cardinality({v \in a : ShiftById(v[2]).isNightShift})

\* the least value of the objective that the assignment a allows
ObjectiveValue(a) ==
    (IF FairnessObjectiveApplies THEN fairness_penalty(a) * FairnessWeight ELSE 0)
    + (IF config.preferences.minimizeNightShifts THEN night_shift_penalty(a) ELSE 0)

(***************************************************************************)
(* The solver.                                                             *)
(***************************************************************************)
\* the assignments that satisfy every constraint added to the model
IsFeasible(a) ==
    /\ RoleConstraint(a)
    /\ OneShiftPerDayConstraint(a)
    /\ AvailabilityConstraint(a)
    /\ NightShiftConstraint(a)
    /\ WeeklyHoursConstraint(a)
    /\ MinRestConstraint(a)
    /\ FairnessConstraint(a)
    /\ WeekendConstraint(a)
    /\ DeviationConstraint(a)

FeasibleAssignments == {a \in SUBSET employee_shift : IsFeasible(a)}

\* the feasible assignments of the least objective value
OptimalAssignments(F) ==
    IF F = {} THEN {}
    ELSE LET values == {ObjectiveValue(b) : b \in F}
             best == CHOOSE v \in values : \A w \in values : v <= w
         IN  {a \in F : ObjectiveValue(a) = best}

\* max(1, total_shifts // len(config.employees) + 1) with no employee
BuildRaises == FairnessCapApplies /\ Len(config.employees) = 0

BuildFails ==
    /\ pc = "build"
    /\ BuildRaises
    /\ pc' = "error"
    /\ UNCHANGED <<config, current_date, shifts, status, assignment, result>>

\* what solver.Solve(model) may return: a status and the values of the variables
SolverOutcomes ==
    LET F == FeasibleAssignments
    IN  {<<"OPTIMAL", a>> : a \in OptimalAssignments(F)}
            \cup {<<"FEASIBLE", a>> : a \in F}
            \cup (IF F = {} THEN {<<"INFEASIBLE", {}>>} ELSE {})
            \cup {<<"UNKNOWN", {}>>}

Solve ==
    /\ pc = "build"
    /\ ~BuildRaises
    /\ pc' = "project"
    /\ \E o \in SolverOutcomes :
          /\ status' = o[1]
          /\ assignment' = o[2]
    /\ UNCHANGED <<config, current_date, shifts, result>>

(***************************************************************************)
(* The Solution Projector.                                                 *)
(***************************************************************************)
\* Solved with the status FEASIBLE forgotten
Solved_OptimalOnly == status = "OPTIMAL"

Solved == status = "OPTIMAL" \/ status = "FEASIBLE"

\* a quotient of two numbers, kept exact
Ratio(n, d) == [num |-> n, den |-> d]

\* the employees whose variable for the shift is 1, in the employees' order
assigned_employees(a, s) ==
    LET IsAssigned(e) == <<e, s>> \in a
    IN  SelectSeq([e \in Employees |-> e], IsAssigned)

\* GeneratedShift with the status "confirmed" whoever is assigned
GeneratedShift_AlwaysConfirmed(a, shift) ==
    [id |-> shift.id,
     shiftTypeId |-> shift.shiftTypeId,
     date |-> shift.date,
     startTime |-> shift.startTime,
     endTime |-> shift.endTime,
     assignedEmployees |-> assigned_employees(a, shift.id),
     status |-> "confirmed"]

GeneratedShift(a, shift) ==
    LET assigned == assigned_employees(a, shift.id)
    IN  [id |-> shift.id,
         shiftTypeId |-> shift.shiftTypeId,
         date |-> shift.date,
         startTime |-> shift.startTime,
         endTime |-> shift.endTime,
         assignedEmployees |-> assigned,
         status |-> IF assigned # <<>> THEN "confirmed" ELSE "pending"]

generated_shifts(a) == [i \in 1..Len(shifts) |-> GeneratedShift(a, shifts[i])]

\* the positions of the generated shifts the employee is assigned to
employee_shifts(gs, e) ==
    {i \in 1..Len(gs) : e \in Range(gs[i].assignedEmployees)}

\* the hours (in hundredths) of the templates of the employee's shifts
total_employee_hours(gs, e) ==
    LET es == employee_shifts(gs, e)
    IN  SumOver(es, [i \in es |-> config.shiftTypes[gs[i].shiftTypeId].duration])

\* utilizationPercentage = (total_employee_hours / maxHoursPerWeek) * 100
EmployeeUtilization(gs, e) ==
    [employeeId |-> e,
     totalHours |-> total_employee_hours(gs, e),
     utilizationPercentage |->
         Ratio(total_employee_hours(gs, e), config.employees[e].maxHoursPerWeek),
     shiftsAssigned |-> Cardinality(employee_shifts(gs, e))]

\* the division by maxHoursPerWeek raises ZeroDivisionError
ProjectionRaises == \E e \in Employees : config.employees[e].maxHoursPerWeek = 0

filled_shifts(gs) == Cardinality({i \in 1..Len(gs) : gs[i].assignedEmployees # <<>>})

\* coverage_percentage as a fraction, not multiplied by 100
coverage_percentage_Fraction(gs) ==
    IF gs # <<>> THEN Ratio(filled_shifts(gs), Len(gs)) ELSE Ratio(0, 1)

\* (filled_shifts / len(generated_shifts)) * 100 if generated_shifts else 0
coverage_percentage(gs) ==
    IF gs # <<>> THEN Ratio(filled_shifts(gs) * 100, Len(gs)) ELSE Ratio(0, 1)

SolvedResult(a) ==
    LET gs == generated_shifts(a)
    IN  [shifts |-> gs,
         employeeUtilization |-> [e \in Employees |-> EmployeeUtilization(gs, e)],
         shiftCoveragePercentage |-> coverage_percentage(gs),
         violations |-> <<>>]

NoSolutionResult ==
    [shifts |-> <<>>,
     employeeUtilization |-> <<>>,
     shiftCoveragePercentage |-> Ratio(0, 1),
     violations |-> <<[type |-> "hard", severity |-> 10]>>]

ProjectSolved ==
    /\ pc = "project"
    /\ Solved
    /\ ~ProjectionRaises
    /\ result' = SolvedResult(assignment)
    /\ pc' = "done"
    /\ UNCHANGED <<config, current_date, shifts, status, assignment>>

ProjectRaises ==
    /\ pc = "project"
    /\ Solved
    /\ ProjectionRaises
    /\ pc' = "error"
    /\ UNCHANGED <<config, current_date, shifts, status, assignment, result>>

ProjectNoSolution ==
    /\ pc = "project"
    /\ ~Solved
    /\ result' = NoSolutionResult
    /\ pc' = "done"
    /\ UNCHANGED <<config, current_date, shifts, status, assignment>>

Next ==
    \/ SkipDate
    \/ ExpandDate
    \/ ExpandDone
    \/ BuildFails
    \/ Solve
    \/ ProjectSolved
    \/ ProjectRaises
    \/ ProjectNoSolution

Spec == Init /\ [][Next]_vars

\* optimize_schedule up to the call of the solver: the expansion of the
\* period, after which the constraint model is a function of the state
Compile ==
    \/ SkipDate
    \/ ExpandDate
    \/ ExpandDone

CompileSpec == Init /\ [][Compile]_vars

(***************************************************************************)
(* The claims.  They are stated on what optimize_schedule returns          *)
(* (result, once pc = "done") and on the configuration, not on the         *)
(* operators of the constraint compiler.                                   *)
(***************************************************************************)
\* a schedule was returned and the solver's status was OPTIMAL or FEASIBLE
SolvedSchedule == pc = "done" /\ status \in {"OPTIMAL", "FEASIBLE"}

\* minutes since midnight of a time of day <<HH, MM>>
MinutesOfDay(t) == 60 * t[1] + t[2]

ResultShifts == 1..Len(result.shifts)

AssignedTo(i) == Range(result.shifts[i].assignedEmployees)

TemplateOf(i) == config.shiftTypes[result.shifts[i].shiftTypeId]

\* the Monday (as a day number) of the calendar week of the i-th result shift
MondayOf(i) == result.shifts[i].date.day - (result.shifts[i].date.day % 7)

ExcludedDays ==
    {config.holidays[i].day : i \in 1..Len(config.holidays)}
        \cup {config.daysOff[i].day : i \in 1..Len(config.daysOff)}

\* C1: in every solved schedule, for every shift instance whose template has
\* required roles and for every required role entry, the number of assigned
\* employees of that role is exactly the entry's count, also when no employee
\* has that role.
C1_RoleCountsExact ==
    SolvedSchedule =>
        \A i \in ResultShifts :
            \A j \in 1..Len(TemplateOf(i).requiredRoles) :
                Cardinality({e \in AssignedTo(i) :
                                config.employees[e].role = TemplateOf(i).requiredRoles[j].role})
                    = TemplateOf(i).requiredRoles[j].count

\* C2: in every solved schedule, every employee assigned to a shift instance
\* whose template has required roles has one of the required roles.
C2_OnlyMatchingRoles ==
    SolvedSchedule =>
        \A i \in ResultShifts :
            TemplateOf(i).requiredRoles # <<>> =>
                \A e \in AssignedTo(i) :
                    \E j \in 1..Len(TemplateOf(i).requiredRoles) :
                        TemplateOf(i).requiredRoles[j].role = config.employees[e].role

\* C3: in every solved schedule, no employee is assigned to two distinct shift
\* instances of the same calendar date, whatever maxShiftsPerDay is.
C3_OneShiftPerDate ==
    SolvedSchedule =>
        \A i \in ResultShifts : \A j \in ResultShifts :
            (i # j /\ result.shifts[i].date.day = result.shifts[j].date.day)
                => AssignedTo(i) \cap AssignedTo(j) = {}

\* a solved schedule with maxShiftsPerDay = 3 and two staffed shifts on one date
C3_Witness ==
    /\ SolvedSchedule
    /\ config.constraints.maxShiftsPerDay = 3
    /\ \E i \in ResultShifts : \E j \in ResultShifts :
          /\ i # j
          /\ result.shifts[i].date.day = result.shifts[j].date.day
          /\ AssignedTo(i) # {}
          /\ AssignedTo(j) # {}

\* C4: once the expansion is over there is exactly one shift instance for every
\* calendar date from startDate to endDate inclusive that is not a holiday or
\* day off and every repeating template, whatever the times of day of
\* startDate and endDate.
C4_OneInstancePerDateAndTemplate ==
    pc # "expand" =>
        \A d \in config.startDate.day..config.endDate.day :
            \A t \in 1..Len(config.shiftTypes) :
                (d \notin ExcludedDays /\ config.shiftTypes[t].isRepeating) =>
                    Cardinality({i \in 1..Len(shifts) :
                                    shifts[i].date.day = d /\ shifts[i].shiftTypeId = t}) = 1

\* C5: every generated shift instance refers to one repeating template and has
\* a date within [startDate, endDate] that is not the calendar date of a
\* holiday or day off.
C5_InstancesWithinPeriod ==
    \A i \in 1..Len(shifts) :
        /\ shifts[i].shiftTypeId \in 1..Len(config.shiftTypes)
        /\ config.shiftTypes[shifts[i].shiftTypeId].isRepeating
        /\ \/ config.startDate.day < shifts[i].date.day
           \/ /\ config.startDate.day = shifts[i].date.day
              /\ config.startDate.tod <= shifts[i].date.tod
        /\ \/ shifts[i].date.day < config.endDate.day
           \/ /\ shifts[i].date.day = config.endDate.day
              /\ shifts[i].date.tod <= config.endDate.tod
        /\ shifts[i].date.day \notin ExcludedDays

\* the expansion is over, a date was skipped, a template does not repeat and
\* instances were generated
C5_Witness ==
    /\ pc = "build"
    /\ Len(shifts) >= 1
    /\ ExcludedDays \cap (config.startDate.day..config.endDate.day) # {}
    /\ \E t \in 1..Len(config.shiftTypes) : ~config.shiftTypes[t].isRepeating

\* whether a window of employee e holds the i-th result shift
InsideSomeWindow(e, i) ==
    \E w \in Range(config.employees[e].availability) :
        /\ w.dayOfWeek = result.shifts[i].date.day % 7
        /\ MinutesOfDay(w.startTime) <= MinutesOfDay(result.shifts[i].startTime)
        /\ MinutesOfDay(result.shifts[i].endTime) <= MinutesOfDay(w.endTime)

\* C6: in every solved schedule, every shift instance assigned to an employee
\* with at least one availability window lies, on its weekday, inside one of
\* the employee's windows.
C6_AssignedWithinAvailability ==
    SolvedSchedule =>
        \A i \in ResultShifts : \A e \in AssignedTo(i) :
            config.employees[e].availability # <<>> => InsideSomeWindow(e, i)

\* a solved schedule where an employee with windows and an employee without
\* any are both assigned, the latter outside every window of the former
C6_Witness ==
    /\ SolvedSchedule
    /\ \E i \in ResultShifts : \E e \in AssignedTo(i) :
          config.employees[e].availability # <<>>
    /\ \E i \in ResultShifts : \E e \in AssignedTo(i) :
          /\ config.employees[e].availability = <<>>
          /\ \E o \in 1..Len(config.employees) :
                /\ config.employees[o].availability # <<>>
                /\ ~InsideSomeWindow(o, i)

\* one employee available Monday to Friday 09:00-17:00 and one template of the
\* employee's role, count 1, over a period that is one Saturday
WeekendScenario ==
    /\ Len(config.employees) = 1
    /\ config.employees[1].availability = WeekdayAvailability
    /\ Len(config.shiftTypes) = 1
    /\ config.shiftTypes[1].requiredRoles
          = <<[role |-> config.employees[1].role, count |-> 1]>>
    /\ config.shiftTypes[1].isRepeating
    /\ config.startDate.day = config.endDate.day
    /\ config.startDate.day % 7 = 5
    /\ ExcludedDays = {}

\* C7: the returned violations list is empty exactly when the solver's status
\* is OPTIMAL or FEASIBLE; for every other status the result has no shift, no
\* employee utilization, coverage 0 and exactly one violation, of type
\* "hard"; the weekend scenario yields that one-violation result.
C7_ViolationsIffNotSolved ==
    pc = "done" =>
        /\ (result.violations = <<>>) <=> (status \in {"OPTIMAL", "FEASIBLE"})
        /\ status \notin {"OPTIMAL", "FEASIBLE"} =>
              /\ result.shifts = <<>>
              /\ result.employeeUtilization = <<>>
              /\ result.shiftCoveragePercentage.num = 0
              /\ Len(result.violations) = 1
              /\ result.violations[1].type = "hard"
        /\ WeekendScenario =>
              /\ Len(result.violations) = 1
              /\ result.shifts = <<>>

\* the weekend scenario returned, the solver having proved it infeasible
C7_Witness ==
    /\ pc = "done"
    /\ WeekendScenario
    /\ status = "INFEASIBLE"
    /\ Len(shifts) = 1

\* the minutes of the shifts assigned to e in the week that starts on day m
AssignedMinutes(e, m) ==
    LET mine == {i \in ResultShifts : MondayOf(i) = m /\ e \in AssignedTo(i)}
    IN  SumOver(mine, [i \in mine |-> shifts[i].duration])

\* C8: in every solved schedule, for every employee and Monday-anchored
\* calendar week, the durations in minutes of the shift instances assigned to
\* the employee in that week sum to at most maxHoursPerEmployee * 60.
C8_WeeklyMinutesWithinCap ==
    SolvedSchedule =>
        \A e \in 1..Len(config.employees) : \A i \in ResultShifts :
            AssignedMinutes(e, MondayOf(i)) <= config.constraints.maxHoursPerEmployee * 60

\* a solved schedule over two weeks where an employee works the full weekly
\* cap in one week and works again in the other
C8_Witness ==
    /\ SolvedSchedule
    /\ \E e \in 1..Len(config.employees) :
          \E i \in ResultShifts : \E j \in ResultShifts :
              /\ MondayOf(i) # MondayOf(j)
              /\ e \in AssignedTo(i) /\ e \in AssignedTo(j)
              /\ AssignedMinutes(e, MondayOf(i)) = config.constraints.maxHoursPerEmployee * 60

\* the i-th result shift starts at or after 22:00 or ends at or before 06:00
IsNight(i) ==
    \/ MinutesOfDay(result.shifts[i].startTime) >= 1320
    \/ MinutesOfDay(result.shifts[i].endTime) <= 360

AssignedNights(e, m) ==
    Cardinality({i \in ResultShifts : MondayOf(i) = m /\ e \in AssignedTo(i) /\ IsNight(i)})

\* C9: in every solved schedule, for every employee and Monday-anchored
\* calendar week, the number of assigned night shifts (start >= 22:00 or
\* end <= 06:00) is at most maxNightShiftsPerWeek.
C9_WeeklyNightsWithinCap ==
    SolvedSchedule =>
        \A e \in 1..Len(config.employees) : \A i \in ResultShifts :
            AssignedNights(e, MondayOf(i)) <= config.constraints.maxNightShiftsPerWeek

\* a solved schedule over two weeks where an employee works as many nights as
\* the cap (1) allows in each of the two weeks
C9_Witness ==
    /\ SolvedSchedule
    /\ config.constraints.maxNightShiftsPerWeek = 1
    /\ \E e \in 1..Len(config.employees) :
          \E i \in ResultShifts : \E j \in ResultShifts :
              /\ MondayOf(i) # MondayOf(j)
              /\ AssignedNights(e, MondayOf(i)) = 1
              /\ AssignedNights(e, MondayOf(j)) = 1

\* C10: in every solved schedule of a configuration with at least one
\* employee, every shift instance whose template has no required roles has at
\* least one assigned employee and the status "confirmed".
C10_AnyRoleShiftsStaffed ==
    (SolvedSchedule /\ Len(config.employees) >= 1) =>
        \A i \in ResultShifts :
            TemplateOf(i).requiredRoles = <<>> =>
                /\ result.shifts[i].assignedEmployees # <<>>
                /\ result.shifts[i].status = "confirmed"

\* a solved schedule with a shift without required roles staffed by an
\* employee, and a shift with required roles
C10_Witness ==
    /\ SolvedSchedule
    /\ \E i \in ResultShifts :
          /\ TemplateOf(i).requiredRoles = <<>>
          /\ Len(result.shifts[i].assignedEmployees) = 1
    /\ \E i \in ResultShifts : TemplateOf(i).requiredRoles # <<>>

\* C11: with no employee, no model is built and solved and no successful
\* (empty violations) schedule is returned, whatever prioritizeFairness is.
C11_NoSolveWithoutEmployees ==
    Len(config.employees) = 0 =>
        /\ status = "none"
        /\ ~(pc = "done" /\ result.violations = <<>>)

\* C12: in every result a shift's status is "confirmed" exactly when its list
\* of assigned employees is not empty and "pending" otherwise, never
\* "conflict"; a successful result holds one result shift per generated shift
\* instance, in the order of generation.
C12_StatusFollowsAssignment ==
    pc = "done" =>
        /\ \A i \in ResultShifts :
              /\ result.shifts[i].status \in {"confirmed", "pending"}
              /\ (result.shifts[i].status = "confirmed")
                    <=> (result.shifts[i].assignedEmployees # <<>>)
        /\ status \in {"OPTIMAL", "FEASIBLE"} =>
              /\ Len(result.shifts) = Len(shifts)
              /\ \A i \in ResultShifts :
                    /\ result.shifts[i].id = shifts[i].id
                    /\ result.shifts[i].id = i - 1
                    /\ result.shifts[i].shiftTypeId = shifts[i].shiftTypeId
                    /\ result.shifts[i].date = shifts[i].date

\* a successful result with a confirmed and a pending shift
C12_Witness ==
    /\ SolvedSchedule
    /\ \E i \in ResultShifts : result.shifts[i].status = "confirmed"
    /\ \E i \in ResultShifts :
          /\ result.shifts[i].status = "pending"
          /\ result.shifts[i].assignedEmployees = <<>>

\* the number of result shifts with at least one assigned employee
FilledCount ==
    Cardinality({i \in ResultShifts : result.shifts[i].assignedEmployees # <<>>})

\* one employee and one repeating 09:00-17:00 template that requires one
\* employee of that employee's role, over a period of one date
SingleShiftScenario ==
    /\ Len(config.employees) = 1
    /\ config.employees[1].availability = <<>>
    /\ Len(config.shiftTypes) = 1
    /\ config.shiftTypes[1].startTime = <<9, 0>>
    /\ config.shiftTypes[1].endTime = <<17, 0>>
    /\ config.shiftTypes[1].requiredRoles
          = <<[role |-> config.employees[1].role, count |-> 1]>>
    /\ config.shiftTypes[1].isRepeating
    /\ config.startDate.day = config.endDate.day
    /\ config.startDate.tod <= config.endDate.tod
    /\ ExcludedDays = {}

\* C13: shiftCoveragePercentage is the number of result shifts with an
\* assigned employee over the number of result shifts, times 100; it is 0
\* when there is no shift and 100 when every shift has an assigned employee;
\* the solved single-shift scenario has exactly one shift, confirmed, and
\* coverage 100.
C13_CoverageIsFilledShare ==
    pc = "done" =>
        LET c == result.shiftCoveragePercentage
        IN  /\ c.den > 0
            /\ c.num * Len(result.shifts) = FilledCount * 100 * c.den
            /\ Len(result.shifts) = 0 => c.num = 0
            /\ (Len(result.shifts) > 0 /\ FilledCount = Len(result.shifts))
                  => c.num = 100 * c.den
            /\ (SingleShiftScenario /\ status \in {"OPTIMAL", "FEASIBLE"}) =>
                  /\ Len(result.shifts) = 1
                  /\ result.shifts[1].assignedEmployees = <<1>>
                  /\ result.shifts[1].status = "confirmed"
                  /\ c.num = 100 * c.den

\* the single-shift scenario, solved
C13_Witness ==
    /\ SolvedSchedule
    /\ SingleShiftScenario
    /\ result.shiftCoveragePercentage.num = 100 * result.shiftCoveragePercentage.den

\* (24:00 - end of the i-th result shift) + start of the j-th, in minutes
GapByTimeOfDay(i, j) ==
    (1440 - MinutesOfDay(result.shifts[i].endTime))
        + MinutesOfDay(result.shifts[j].startTime)

\* C15: in every solved schedule, no employee is assigned to two shift
\* instances s1, s2 with date(s2) one calendar day after date(s1) for which
\* (24:00 - end of s1) + start of s2 is less than minHoursBetweenShifts hours.
C15_RestByTimeOfDay ==
    SolvedSchedule =>
        \A i \in ResultShifts : \A j \in ResultShifts :
            (/\ result.shifts[j].date.day = result.shifts[i].date.day + 1
             /\ GapByTimeOfDay(i, j) < config.constraints.minHoursBetweenShifts * 60)
                => AssignedTo(i) \cap AssignedTo(j) = {}

\* a solved schedule with two staffed shifts on consecutive dates whose gap is
\* too short, and an employee who works on both dates with a sufficient gap
C15_Witness ==
    /\ SolvedSchedule
    /\ \E i \in ResultShifts : \E j \in ResultShifts :
          /\ result.shifts[j].date.day = result.shifts[i].date.day + 1
          /\ GapByTimeOfDay(i, j) < config.constraints.minHoursBetweenShifts * 60
          /\ AssignedTo(i) # {}
          /\ AssignedTo(j) # {}
    /\ \E i \in ResultShifts : \E j \in ResultShifts :
          /\ result.shifts[j].date.day = result.shifts[i].date.day + 1
          /\ GapByTimeOfDay(i, j) >= config.constraints.minHoursBetweenShifts * 60
          /\ AssignedTo(i) \cap AssignedTo(j) # {}

\* C16: in every solved schedule, for every employee and Monday-anchored
\* week, the durations of the employee's assigned shift instances sum to at
\* most the employee's own maxHoursPerWeek * 60 minutes.
C16_WithinOwnWeeklyHours ==
    SolvedSchedule =>
        \A e \in 1..Len(config.employees) : \A i \in ResultShifts :
            AssignedMinutes(e, MondayOf(i)) <= config.employees[e].maxHoursPerWeek * 60

\* the number of result shifts the employee e is assigned to
AssignedCount(e) == Cardinality({i \in ResultShifts : e \in AssignedTo(i)})

\* floor(total shift instances / employee count) + 1
ClaimedFairnessCap == (Len(result.shifts) \div Len(config.employees)) + 1

\* every constraint of the model but the fairness cap
HoldsWithoutFairnessCap(a) ==
    /\ RoleConstraint(a)
    /\ OneShiftPerDayConstraint(a)
    /\ AvailabilityConstraint(a)
    /\ NightShiftConstraint(a)
    /\ WeeklyHoursConstraint(a)
    /\ MinRestConstraint(a)
    /\ WeekendConstraint(a)
    /\ DeviationConstraint(a)

\* C17: with prioritizeFairness > 0.5 every employee of a solved schedule is
\* assigned to at most floor(total shift instances / employee count) + 1
\* shift instances; with prioritizeFairness <= 0.5 every assignment that
\* satisfies the other constraints is feasible for the solver.
C17_FairnessCapIffAboveHalf ==
    /\ (SolvedSchedule /\ config.constraints.prioritizeFairness > 500) =>
           \A e \in 1..Len(config.employees) : AssignedCount(e) <= ClaimedFairnessCap
    /\ (pc = "build" /\ config.constraints.prioritizeFairness <= 500) =>
           \A a \in SUBSET employee_shift :
               HoldsWithoutFairnessCap(a) => a \in FeasibleAssignments

\* a solved schedule under prioritizeFairness > 0.5 with more shift instances
\* than the cap, in which an employee works exactly as many as the cap
C17_Witness ==
    /\ SolvedSchedule
    /\ config.constraints.prioritizeFairness > 500
    /\ config.employees # <<>>
    /\ Len(result.shifts) > ClaimedFairnessCap
    /\ \E e \in 1..Len(config.employees) : AssignedCount(e) = ClaimedFairnessCap

\* a solved schedule under prioritizeFairness = 0.5 in which an employee
\* works more shift instances than the cap would allow
UncappedAtHalf ==
    /\ SolvedSchedule
    /\ config.constraints.prioritizeFairness = 500
    /\ config.employees # <<>>
    /\ \E e \in 1..Len(config.employees) : AssignedCount(e) > ClaimedFairnessCap

\* the result shifts dated on a Saturday or Sunday that e is assigned to
WeekendShiftsOf(e) ==
    {i \in ResultShifts :
        /\ e \in AssignedTo(i)
        /\ result.shifts[i].date.day % 7 \in {5, 6}}

\* every constraint of the model but the weekend cap
HoldsWithoutWeekendCap(a) ==
    /\ RoleConstraint(a)
    /\ OneShiftPerDayConstraint(a)
    /\ AvailabilityConstraint(a)
    /\ NightShiftConstraint(a)
    /\ WeeklyHoursConstraint(a)
    /\ MinRestConstraint(a)
    /\ FairnessConstraint(a)
    /\ DeviationConstraint(a)

\* C18: with spreadWeekendShiftsFairly enabled every employee of a solved
\* schedule is assigned to at most 2 shift instances dated on a Saturday or
\* Sunday; with it disabled every assignment that satisfies the other
\* constraints is feasible for the solver.
C18_WeekendCapOfTwo ==
    /\ (SolvedSchedule /\ config.preferences.spreadWeekendShiftsFairly) =>
           \A e \in 1..Len(config.employees) : Cardinality(WeekendShiftsOf(e)) <= 2
    /\ (pc = "build" /\ ~config.preferences.spreadWeekendShiftsFairly) =>
           \A a \in SUBSET employee_shift :
               HoldsWithoutWeekendCap(a) => a \in FeasibleAssignments

\* a solved schedule under spreadWeekendShiftsFairly with three weekend
\* instances, every one staffed, and an employee who works two of them
C18_Witness ==
    /\ SolvedSchedule
    /\ config.preferences.spreadWeekendShiftsFairly
    /\ Cardinality({i \in ResultShifts : result.shifts[i].date.day % 7 \in {5, 6}}) >= 3
    /\ \A i \in ResultShifts : AssignedTo(i) # {}
    /\ \E e \in 1..Len(config.employees) : Cardinality(WeekendShiftsOf(e)) = 2

\* the weekend cap leaves no assignment: one employee, three weekend
\* instances that each require the employee
InfeasibleByWeekendCap ==
    /\ pc = "done"
    /\ status = "INFEASIBLE"
    /\ config.preferences.spreadWeekendShiftsFairly
    /\ Len(config.employees) = 1

\* a solved schedule without spreadWeekendShiftsFairly in which an employee
\* works three weekend instances
UncappedWeekends ==
    /\ SolvedSchedule
    /\ ~config.preferences.spreadWeekendShiftsFairly
    /\ \E e \in 1..Len(config.employees) : Cardinality(WeekendShiftsOf(e)) >= 3

\* floor(total shift instances / employee count)
ClaimedIdeal ==
    IF Len(config.employees) = 0 THEN 0 ELSE Len(shifts) \div Len(config.employees)

\* sum over employees of |assigned shift count - ClaimedIdeal|
ClaimedDeviation(a) ==
    LET es == 1..Len(config.employees)
    IN  SumOver(es, [e \in es |-> Abs(Cardinality({v \in a : v[1] = e}) - ClaimedIdeal)])

\* the assignments of a to instances starting at or after 22:00 or ending at
\* or before 06:00
ClaimedNights(a) ==
    Cardinality({v \in a :
        \/ MinutesOfDay(shifts[v[2] + 1].startTime) >= 1320
        \/ MinutesOfDay(shifts[v[2] + 1].endTime) <= 360})

\* trunc(prioritizeFairness x 100) x deviation, plus the night assignments
ClaimedObjective(a) ==
    (IF config.constraints.prioritizeFairness > 0
     THEN ((config.constraints.prioritizeFairness * 100) \div 1000) * ClaimedDeviation(a)
     ELSE 0)
    + (IF config.preferences.minimizeNightShifts THEN ClaimedNights(a) ELSE 0)

\* every hard constraint of the model
HoldsEveryHardConstraint(a) ==
    /\ RoleConstraint(a)
    /\ OneShiftPerDayConstraint(a)
    /\ AvailabilityConstraint(a)
    /\ NightShiftConstraint(a)
    /\ WeeklyHoursConstraint(a)
    /\ MinRestConstraint(a)
    /\ FairnessConstraint(a)
    /\ WeekendConstraint(a)

\* the least claimed value among the assignments of the set H
LeastClaimedObjective(H) ==
    LET values == {ClaimedObjective(a) : a \in H}
    IN  CHOOSE v \in values : \A w \in values : v <= w

\* C19: once the constraint model is built, whatever the solver may return
\* with status OPTIMAL has the least value of trunc(prioritizeFairness x 100)
\* x (sum of |count - floor(total / n)|) (when prioritizeFairness > 0) plus
\* the night assignments (when minimizeNightShifts) among the assignments
\* that satisfy every hard constraint, and each of those assignments is
\* feasible for the solver.
C19_OptimalMinimizesObjective ==
    pc = "build" =>
        LET H == {b : b \in {a \in SUBSET employee_shift : HoldsEveryHardConstraint(a)}}
            least == LeastClaimedObjective(H)
            optimal == {o[2] : o \in {x \in SolverOutcomes : x[1] = "OPTIMAL"}}
        IN  /\ H \subseteq FeasibleAssignments
            /\ optimal \subseteq H
            /\ optimal # {} => {ClaimedObjective(a) : a \in optimal} = {least}

\* a model handed to the solver under both objective terms whose OPTIMAL
\* outcome has each of them positive, while an assignment satisfying the
\* hard constraints has a greater value
C19_Witness ==
    /\ pc = "build"
    /\ ~BuildRaises
    /\ config.constraints.prioritizeFairness >= 10
    /\ config.preferences.minimizeNightShifts
    /\ \E o \in SolverOutcomes :
          /\ o[1] = "OPTIMAL"
          /\ ClaimedDeviation(o[2]) > 0
          /\ ClaimedNights(o[2]) > 0
          /\ \E a \in SUBSET employee_shift :
                /\ HoldsEveryHardConstraint(a)
                /\ ClaimedObjective(a) > ClaimedObjective(o[2])

\* minutes from the midnight that begins day 0 to the real end of the i-th
\* result shift: an end time of day earlier than the start lies on the next day
RealEnd(i) ==
    1440 * result.shifts[i].date.day
        + MinutesOfDay(result.shifts[i].endTime)
        + (IF MinutesOfDay(result.shifts[i].endTime) < MinutesOfDay(result.shifts[i].startTime)
           THEN 1440 ELSE 0)

RealStart(i) ==
    1440 * result.shifts[i].date.day + MinutesOfDay(result.shifts[i].startTime)

\* C20: in every solved schedule, the time that really elapses between the
\* end of an employee's shift and the start of the same employee's shift on
\* the next calendar date is at least minHoursBetweenShifts hours, also when
\* the first shift crosses midnight.
C20_RealRestBetweenDates ==
    SolvedSchedule =>
        \A i \in ResultShifts : \A j \in ResultShifts :
            (/\ result.shifts[j].date.day = result.shifts[i].date.day + 1
             /\ AssignedTo(i) \cap AssignedTo(j) # {})
                => RealStart(j) - RealEnd(i) >= config.constraints.minHoursBetweenShifts * 60

\* C21: with at least one employee optimize_schedule never stops on an
\* arithmetic error, and what it returns is either a solved schedule with
\* one utilization entry per employee or the result with a single violation.
C21_NoArithmeticError ==
    Len(config.employees) >= 1 =>
        /\ pc # "error"
        /\ pc = "done" =>
              \/ /\ result.violations = <<>>
                 /\ Len(result.employeeUtilization) = Len(config.employees)
              \/ /\ Len(result.violations) = 1
                 /\ result.shifts = <<>>

====
